---- MODULE Spec2Model ----
(***************************************************************************)
(* Authentication core of the Move Marias backend:                         *)
(*   backend/app/routes/auth.py     login, refresh, logout, verify-token   *)
(*   backend/app/models/usuario.py  Usuario and its lockout bookkeeping    *)
(*   backend/app/extensions.py      JWT callbacks                          *)
(*   backend/app/config.py          token lifetimes, lockout settings      *)
(*   backend/app/utils/error_handlers.py  generic exception handler        *)
(*   backend/app/models/termo_consentimento.py  consent revocation        *)
(*   backend/app/models/matricula_projeto_social.py  enrolment status      *)
(*                                                                         *)
(* Time is counted in minutes.  One action is one whole request handler    *)
(* (or one whole method call on a Usuario object).                         *)
(***************************************************************************)
EXTENDS Integers, FiniteSets, Sequences, TLC

\* ------------------------------------------------------------------ bounds
MaxTime == 16
MaxDia == 3
MaxTentativas == 6
MaxFalhas == 5
AccessExp == 8
RefreshExp == 15

\* ------------------------------------------------- program constants (config)
MAX_LOGIN_ATTEMPTS == 5
LOGIN_ATTEMPT_TIMEOUT == 15
JWT_ACCESS_TOKEN_EXPIRES_MINUTES == 1440
JWT_REFRESH_TOKEN_EXPIRES_DAYS == 30

\* Python's None for the optional DateTime columns (times are >= 0).
None == -1

\* ------------------------------------------------------------ value domains
Contas == {"ana", "bia"}
Emails == {"ana", "ANA", "bia", "zed"}
Senhas == {"s1", "s2"}
TickSteps == {7, 8}

\* str.lower().strip() on the e-mail, as find_by_email applies it.
NormalizeEmail(email) ==
    IF email = "ANA" THEN "ana" ELSE email

\* bcrypt.generate_password_hash: a one-way image of the secret.
generate_password_hash(senha) == <<"bcrypt", senha>>

\* Usuario.check_password
check_password(u, senha) == u.senha_hash = generate_password_hash(senha)

\* Usuario.is_blocked at time t
is_blocked(u, t) ==
    IF u.bloqueado_ate = None THEN FALSE ELSE t < u.bloqueado_ate

\* increment_login_attempts locking only above the threshold (> for >=).
increment_login_attempts_Above(u, t) ==
    LET n == u.tentativas_login + 1
    IN  IF n > MAX_LOGIN_ATTEMPTS
        THEN [u EXCEPT !.tentativas_login = n,
                       !.bloqueado_ate = t + LOGIN_ATTEMPT_TIMEOUT]
        ELSE [u EXCEPT !.tentativas_login = n]

\* increment_login_attempts locking only on the attempt that reaches the
\* threshold (= for >=).
increment_login_attempts_LockOnce(u, t) ==
    LET n == u.tentativas_login + 1
    IN  IF n = MAX_LOGIN_ATTEMPTS
        THEN [u EXCEPT !.tentativas_login = n,
                       !.bloqueado_ate = t + LOGIN_ATTEMPT_TIMEOUT]
        ELSE [u EXCEPT !.tentativas_login = n]

\* Usuario.increment_login_attempts at time t
increment_login_attempts(u, t) ==
    LET n == u.tentativas_login + 1
    IN  IF n >= MAX_LOGIN_ATTEMPTS
        THEN [u EXCEPT !.tentativas_login = n,
                       !.bloqueado_ate = t + LOGIN_ATTEMPT_TIMEOUT]
        ELSE [u EXCEPT !.tentativas_login = n]

\* reset_login_attempts leaving bloqueado_ate as it is.
reset_login_attempts_KeepsLock(u, t) ==
    [u EXCEPT !.tentativas_login = 0,
              !.ultimo_login = t]

\* Usuario.reset_login_attempts at time t
reset_login_attempts(u, t) ==
    [u EXCEPT !.tentativas_login = 0,
              !.bloqueado_ate = None,
              !.ultimo_login = t]

\* The methods class Usuario defines; calling any other name on a Usuario
\* raises AttributeError.
UsuarioMethods ==
    {"set_password", "check_password", "is_admin", "is_profissional",
     "is_active", "is_blocked", "increment_login_attempts",
     "reset_login_attempts", "to_dict", "find_by_email", "find_by_id",
     "get_active_users", "get_admins", "get_profissionais"}

\* app.config values the handlers read: both are datetime.timedelta objects.
JWT_ACCESS_TOKEN_EXPIRES ==
    [type |-> "timedelta", minutes |-> JWT_ACCESS_TOKEN_EXPIRES_MINUTES]
JWT_REFRESH_TOKEN_EXPIRES ==
    [type |-> "timedelta", minutes |-> JWT_REFRESH_TOKEN_EXPIRES_DAYS * 24 * 60]

\* datetime.timedelta(hours=x) / timedelta(days=x): defined for numbers only;
\* any other argument type raises TypeError.
timedelta(unit, x) ==
    IF x.type = "int"
    THEN [ok |-> TRUE,
          minutes |-> (IF unit = "hours" THEN 60 ELSE 24 * 60) * x.value]
    ELSE [ok |-> FALSE, minutes |-> 0]

\* ------------------------------------------------------------------ tokens
NoToken == [jti |-> 0, sub |-> "", type |-> "", iat |-> None, exp |-> None,
            tipo_usuario |-> ""]

\* Bearer tokens carrying a valid signature under JWT_SECRET_KEY that a
\* client may present.  The verifier keeps no record of issued tokens, so
\* the protected routes are defined on every such token.
Tokens ==
    { [jti |-> 1, sub |-> "ana", type |-> "access", iat |-> 0,
       exp |-> AccessExp, tipo_usuario |-> "admin"],
      [jti |-> 2, sub |-> "ana", type |-> "refresh", iat |-> 0,
       exp |-> RefreshExp, tipo_usuario |-> "admin"],
      [jti |-> 3, sub |-> "bia", type |-> "access", iat |-> 0,
       exp |-> AccessExp, tipo_usuario |-> "profissional"],
      [jti |-> 4, sub |-> "bia", type |-> "refresh", iat |-> 0,
       exp |-> RefreshExp, tipo_usuario |-> "profissional"] }

Jtis == {tok.jti : tok \in Tokens}

\* flask_jwt_extended.create_access_token / create_refresh_token with the
\* identity and additional-claims loaders of setup_jwt_handlers.
create_token(kind, jti, u, identity, t, delta) ==
    [jti |-> jti, sub |-> identity, type |-> kind, iat |-> t,
     exp |-> t + delta, tipo_usuario |-> u.tipo_usuario]

\* ---------------------------------------------------------------- responses
Resp(status, message, access, refresh) ==
    [status |-> status, message |-> message,
     access_token |-> access, refresh_token |-> refresh]

\* handle_generic_exception: every uncaught exception becomes a 500.
handle_generic_exception == Resp(500, "Erro interno", NoToken, NoToken)

\* jwt_required without the check of the token's type.
jwt_required_AnyKind(tok, wantRefresh, t) ==
    IF tok.exp <= t THEN "token_expired" ELSE "ok"

\* @jwt_required(refresh=...) : the outcome of verify_jwt_in_request for a
\* well-signed token at time t.  No token_in_blocklist_loader is registered,
\* so the decorator never consults revoked_tokens.
jwt_required(tok, wantRefresh, t) ==
    IF tok.exp <= t THEN "token_expired"
    ELSE IF (tok.type = "refresh") # wantRefresh THEN "token_invalid"
    ELSE "ok"

\* expired_token_callback / invalid_token_callback
jwt_error_response(outcome) ==
    IF outcome = "token_expired"
    THEN Resp(401, "token_expired", NoToken, NoToken)
    ELSE Resp(401, "token_invalid", NoToken, NoToken)

\* -------------------------------------------------------------------- state
\* usuarios        the usuarios table: conta -> Usuario row
\* revoked_tokens  auth.revoked_tokens
\* now             datetime.utcnow(), in minutes
\* request         the request (or call) handled last
\* response        its response
\* events          the security events that request emitted
\* falhas          history: the current run of consecutive wrong-secret
\*                 logins, [conta, n]
\* ja_revogado     history: the presented jti was in revoked_tokens when the
\*                 request arrived
\* termo           one TermoConsentimento row
\* matricula       one MatriculaProjetoSocial row
\* hoje            date.today(), in days
VARIABLES usuarios, revoked_tokens, now, request, response, events, falhas,
          ja_revogado, termo, matricula, hoje

vars == <<usuarios, revoked_tokens, now, request, response, events, falhas,
          ja_revogado, termo, matricula, hoje>>

\* What is recorded of a request: the operation, the account it resolves to
\* ("" if none), whether the presented secret matches that account's hash,
\* the presented token's jti, and is_blocked() of the account on arrival.
Req(op, conta, correct, jti, blocked) ==
    [op |-> op, conta |-> conta, correct |-> correct, jti |-> jti,
     blocked |-> blocked]

NoResp == Resp(0, "", NoToken, NoToken)

NovoUsuario(senha, tipo, ativo) ==
    [senha_hash |-> generate_password_hash(senha), tipo_usuario |-> tipo,
     ativo |-> ativo, tentativas_login |-> 0, bloqueado_ate |-> None,
     ultimo_login |-> None]

\* A TermoConsentimento row as inserted: not revoked, with or without an end
\* of validity.  motivo_revogacao "" stands for NULL.
FimConsentimento == {None, 7, 15}

NovoTermo(fim) ==
    [consentimento_revogado |-> FALSE, data_revogacao |-> None,
     motivo_revogacao |-> "", atualizado_em |-> 0,
     data_fim_consentimento |-> fim]

\* A MatriculaProjetoSocial row as inserted: status INSCRITA, no certificate.
\* motivo_desistencia "" stands for NULL.
NovaMatricula ==
    [status_matricula |-> "inscrita", data_matricula |-> None,
     data_inicio |-> None, data_fim_real |-> None, nota_final |-> None,
     certificado_emitido |-> FALSE, data_certificado |-> None,
     data_desistencia |-> None, motivo_desistencia |-> ""]

InitAuth ==
    /\ \E biaAtiva \in BOOLEAN :
         usuarios = [c \in Contas |->
                       IF c = "ana" THEN NovoUsuario("s1", "admin", TRUE)
                       ELSE NovoUsuario("s2", "profissional", biaAtiva)]
    /\ revoked_tokens = {}
    /\ now = 0
    /\ request = Req("init", "", FALSE, 0, FALSE)
    /\ response = NoResp
    /\ events = {}
    /\ falhas = [conta |-> "", n |-> 0]
    /\ ja_revogado = FALSE

Init ==
    /\ InitAuth
    /\ termo = NovoTermo(None)
    /\ matricula = NovaMatricula
    /\ hoje = 0

\* log_security_event(event_type, details)
Event(type, reason) == [event_type |-> type, reason |-> reason]

\* Usuario.find_by_email
find_by_email(email) ==
    IF NormalizeEmail(email) \in Contas THEN NormalizeEmail(email) ELSE ""

Min(a, b) == IF a < b THEN a ELSE b

\* ------------------------------------------------------------------- login
InvalidCredentials == Resp(401, "Email ou senha invalidos", NoToken, NoToken)
UsuarioInativo == Resp(401, "Usuario inativo", NoToken, NoToken)

\* LoginOutcome with a wrong-secret message of its own.
LoginOutcome_DistinctMessage(email, senha) ==
    LET c == find_by_email(email)
    IN  IF c = ""
        THEN [resp |-> InvalidCredentials,
              events |-> {Event("login_failed", "user_not_found")},
              case |-> "user_not_found"]
        ELSE IF ~usuarios[c].ativo
        THEN [resp |-> UsuarioInativo,
              events |-> {Event("login_failed", "user_inactive")},
              case |-> "user_inactive"]
        ELSE IF ~check_password(usuarios[c], senha)
        THEN [resp |-> Resp(401, "Senha incorreta", NoToken, NoToken),
              events |-> {Event("login_failed", "wrong_password")},
              case |-> "wrong_password"]
        ELSE [resp |-> handle_generic_exception, events |-> {},
              case |-> "TypeError"]

\* Response and events of POST /api/auth/login for (email, senha).
\* login checking the secret before the ativo flag.
LoginOutcome_PasswordFirst(email, senha) ==
    LET c == find_by_email(email)
    IN  IF c = ""
        THEN [resp |-> InvalidCredentials,
              events |-> {Event("login_failed", "user_not_found")},
              case |-> "user_not_found"]
        ELSE IF ~check_password(usuarios[c], senha)
        THEN [resp |-> InvalidCredentials,
              events |-> {Event("login_failed", "wrong_password")},
              case |-> "wrong_password"]
        ELSE IF ~usuarios[c].ativo
        THEN [resp |-> UsuarioInativo,
              events |-> {Event("login_failed", "user_inactive")},
              case |-> "user_inactive"]
        ELSE [resp |-> handle_generic_exception, events |-> {},
              case |-> "TypeError"]

LoginOutcome(email, senha) ==
    LET c == find_by_email(email)
    IN  IF c = ""
        THEN [resp |-> InvalidCredentials,
              events |-> {Event("login_failed", "user_not_found")},
              case |-> "user_not_found"]
        ELSE IF ~usuarios[c].ativo
        THEN [resp |-> UsuarioInativo,
              events |-> {Event("login_failed", "user_inactive")},
              case |-> "user_inactive"]
        ELSE IF ~check_password(usuarios[c], senha)
        THEN [resp |-> InvalidCredentials,
              events |-> {Event("login_failed", "wrong_password")},
              case |-> "wrong_password"]
        ELSE IF ~timedelta("hours", JWT_ACCESS_TOKEN_EXPIRES).ok
        THEN [resp |-> handle_generic_exception, events |-> {},
              case |-> "TypeError"]
        ELSE IF ~timedelta("days", JWT_REFRESH_TOKEN_EXPIRES).ok
        THEN [resp |-> handle_generic_exception, events |-> {},
              case |-> "TypeError"]
        ELSE IF "update_last_login" \notin UsuarioMethods
        THEN [resp |-> handle_generic_exception, events |-> {},
              case |-> "AttributeError"]
        ELSE [resp |-> Resp(200, "Login realizado com sucesso",
                            create_token("access", 5, usuarios[c], c, now,
                              timedelta("hours", JWT_ACCESS_TOKEN_EXPIRES).minutes),
                            create_token("refresh", 6, usuarios[c], c, now,
                              timedelta("days", JWT_REFRESH_TOKEN_EXPIRES).minutes)),
              events |-> {Event("login_success", "")},
              case |-> "success"]

\* login writing the table tab(c) for the account c the e-mail resolves to.
LoginWriting(email, senha, tab(_)) ==
    LET c == find_by_email(email)
        out == LoginOutcome(email, senha)
        known == c # ""
        correct == known /\ check_password(usuarios[c], senha)
    IN  /\ request' = Req("login", c, correct,  0,
                          known /\ is_blocked(usuarios[c], now))
        /\ response' = out.resp
        /\ events' = out.events
        /\ falhas' = IF out.case = "wrong_password"
                     THEN [conta |-> c,
                           n |-> IF falhas.conta = c
                                 THEN Min(falhas.n + 1, MaxFalhas) ELSE 1]
                     ELSE IF known /\ correct /\ falhas.conta = c
                     THEN [conta |-> c, n |-> 0]
                     ELSE falhas
        /\ ja_revogado' = FALSE
        /\ usuarios' = IF known THEN tab(c) ELSE usuarios
        /\ UNCHANGED <<revoked_tokens, now>>

CountUp(u) ==
    IF u.tentativas_login < MaxTentativas
    THEN increment_login_attempts(u, now) ELSE u

\* login counting every attempt on a known account, locked or not.
Login_CountsWhileLocked(email, senha) ==
    LET tab(c) == [usuarios EXCEPT ![c] = CountUp(@)]
    IN  LoginWriting(email, senha, tab)

\* login clearing the lockout fields before it checks the secret.
Login_ResetsBeforeCheck(email, senha) ==
    LET tab(c) == [usuarios EXCEPT ![c] = reset_login_attempts(@, now)]
    IN  LoginWriting(email, senha, tab)

\* login counting the attempt on every row instead of the row found.
Login_SharedCounter(email, senha) ==
    LET tab(c) == [b \in Contas |-> CountUp(usuarios[b])]
    IN  LoginWriting(email, senha, tab)

\* login stamping ultimo_login on every attempt, rejected or not.
Login_StampsAlways(email, senha) ==
    LET tab(c) == [usuarios EXCEPT ![c].ultimo_login = now]
    IN  LoginWriting(email, senha, tab)

Login(email, senha) ==
    LET c == find_by_email(email)
        out == LoginOutcome(email, senha)
        known == c # ""
        correct == known /\ check_password(usuarios[c], senha)
    IN  /\ request' = Req("login", c, correct,  0,
                          known /\ is_blocked(usuarios[c], now))
        /\ response' = out.resp
        /\ events' = out.events
        /\ falhas' = IF out.case = "wrong_password"
                     THEN [conta |-> c,
                           n |-> IF falhas.conta = c
                                 THEN Min(falhas.n + 1, MaxFalhas) ELSE 1]
                     ELSE IF known /\ correct /\ falhas.conta = c
                     THEN [conta |-> c, n |-> 0]
                     ELSE falhas
        /\ ja_revogado' = FALSE
        /\ UNCHANGED <<usuarios, revoked_tokens, now>>

\* ----------------------------------------------------------------- refresh
\* refresh without the test of the account's ativo flag.
RefreshOutcome_NoActiveCheck(tok) ==
    LET v == jwt_required(tok, TRUE, now)
    IN  IF v # "ok" THEN jwt_error_response(v)
        ELSE IF tok.jti \in revoked_tokens
        THEN Resp(401, "Token invalido", NoToken, NoToken)
        ELSE IF tok.sub \notin Contas
        THEN Resp(401, "Usuario nao encontrado ou inativo", NoToken, NoToken)
        ELSE handle_generic_exception

\* POST /api/auth/refresh with tok as bearer token.
RefreshOutcome(tok) ==
    LET v == jwt_required(tok, TRUE, now)
    IN  IF v # "ok" THEN jwt_error_response(v)
        ELSE IF tok.jti \in revoked_tokens
        THEN Resp(401, "Token invalido", NoToken, NoToken)
        ELSE IF tok.sub \notin Contas \/ ~usuarios[tok.sub].ativo
        THEN Resp(401, "Usuario nao encontrado ou inativo", NoToken, NoToken)
        ELSE IF ~timedelta("hours", JWT_ACCESS_TOKEN_EXPIRES).ok
        THEN handle_generic_exception
        ELSE Resp(200, "Token renovado com sucesso",
                  create_token("access", 5, usuarios[tok.sub], tok.sub, now,
                      timedelta("hours", JWT_ACCESS_TOKEN_EXPIRES).minutes),
                  NoToken)

\* refresh revoking the presented refresh token (rotation).
Refresh_Rotates(tok) ==
    /\ request' = Req("refresh", tok.sub, FALSE, tok.jti, FALSE)
    /\ response' = RefreshOutcome(tok)
    /\ events' = {}
    /\ ja_revogado' = (tok.jti \in revoked_tokens)
    /\ revoked_tokens' = IF jwt_required(tok, TRUE, now) = "ok"
                         THEN revoked_tokens \cup {tok.jti}
                         ELSE revoked_tokens
    /\ UNCHANGED <<usuarios, now, falhas>>

Refresh(tok) ==
    /\ request' = Req("refresh", tok.sub, FALSE, tok.jti, FALSE)
    /\ response' = RefreshOutcome(tok)
    /\ events' = {}
    /\ ja_revogado' = (tok.jti \in revoked_tokens)
    /\ UNCHANGED <<usuarios, revoked_tokens, now, falhas>>

\* ------------------------------------------------------------------ logout
\* logout that takes an already revoked jti out of the registry again.
Logout_Toggle(tok) ==
    LET v == jwt_required(tok, FALSE, now)
    IN  /\ request' = Req("logout", tok.sub, FALSE, tok.jti, FALSE)
        /\ ja_revogado' = (tok.jti \in revoked_tokens)
        /\ IF v # "ok"
           THEN /\ response' = jwt_error_response(v)
                /\ events' = {}
                /\ UNCHANGED revoked_tokens
           ELSE /\ revoked_tokens' = IF tok.jti \in revoked_tokens
                                     THEN revoked_tokens \ {tok.jti}
                                     ELSE revoked_tokens \cup {tok.jti}
                /\ events' = {Event("logout", "")}
                /\ response' = Resp(200, "Logout realizado com sucesso",
                                    NoToken, NoToken)
        /\ UNCHANGED <<usuarios, now, falhas>>

\* POST /api/auth/logout with tok as bearer token.
Logout(tok) ==
    LET v == jwt_required(tok, FALSE, now)
    IN  /\ request' = Req("logout", tok.sub, FALSE, tok.jti, FALSE)
        /\ ja_revogado' = (tok.jti \in revoked_tokens)
        /\ IF v # "ok"
           THEN /\ response' = jwt_error_response(v)
                /\ events' = {}
                /\ UNCHANGED revoked_tokens
           ELSE /\ revoked_tokens' = revoked_tokens \cup {tok.jti}
                /\ events' = {Event("logout", "")}
                /\ response' = Resp(200, "Logout realizado com sucesso",
                                    NoToken, NoToken)
        /\ UNCHANGED <<usuarios, now, falhas>>

\* ------------------------------------------------------------ verify-token
\* GET /api/auth/verify-token with tok as bearer token.  The before-request
\* hook check_if_token_revoked returns at once for every endpoint of the
\* auth blueprint, so only the decorator decides.
VerifyToken(tok) ==
    LET v == jwt_required(tok, FALSE, now)
    IN  /\ request' = Req("verify_token", tok.sub, FALSE, tok.jti, FALSE)
        /\ response' = IF v # "ok" THEN jwt_error_response(v)
                       ELSE Resp(200, "Token valido", NoToken, NoToken)
        /\ events' = {}
        /\ ja_revogado' = (tok.jti \in revoked_tokens)
        /\ UNCHANGED <<usuarios, revoked_tokens, now, falhas>>

\* ---------------------------------------------------------------------- me
\* GET /api/auth/me with tok as bearer token.
GetCurrentUser(tok) ==
    LET v == jwt_required(tok, FALSE, now)
    IN  /\ request' = Req("me", tok.sub, FALSE, tok.jti, FALSE)
        /\ response' = IF v # "ok" THEN jwt_error_response(v)
                       ELSE IF tok.sub \notin Contas
                       THEN Resp(404, "Usuario nao encontrado", NoToken, NoToken)
                       ELSE Resp(200, "Dados do usuario obtidos com sucesso",
                                 NoToken, NoToken)
        /\ events' = {}
        /\ ja_revogado' = (tok.jti \in revoked_tokens)
        /\ UNCHANGED <<usuarios, revoked_tokens, now, falhas>>

\* --------------------------------------------------------- change-password
\* Form values of change-password: senha_atual is a secret or missing ("");
\* nova_senha and confirmar_senha are a secret or a secret shorter than six
\* characters ("curta").
SenhasAtual == Senhas \cup {""}
SenhasNova == Senhas \cup {"curta"}

\* len(senha)
SenhaLen(senha) ==
    IF senha = "" THEN 0 ELSE IF senha = "curta" THEN 5 ELSE 8

\* Usuario.set_password
set_password(u, senha) ==
    [u EXCEPT !.senha_hash = generate_password_hash(senha)]

\* change-password storing the new hash before it checks the current secret.
ChangePasswordOutcome_SetsFirst(tok, senha_atual, nova_senha, confirmar_senha) ==
    LET v == jwt_required(tok, FALSE, now)
        same(resp) == [resp |-> resp, events |-> {}, usuarios |-> usuarios]
    IN  IF v # "ok" THEN same(jwt_error_response(v))
        ELSE IF senha_atual = "" \/ nova_senha = "" \/ confirmar_senha = ""
        THEN same(Resp(400, "Todos os campos sao obrigatorios",
                       NoToken, NoToken))
        ELSE IF nova_senha # confirmar_senha
        THEN same(Resp(400, "Nova senha e confirmacao nao coincidem",
                       NoToken, NoToken))
        ELSE IF SenhaLen(nova_senha) < 6
        THEN same(Resp(400, "Nova senha deve ter pelo menos 6 caracteres",
                       NoToken, NoToken))
        ELSE IF tok.sub \notin Contas
        THEN same(Resp(404, "Usuario nao encontrado", NoToken, NoToken))
        ELSE IF ~check_password(usuarios[tok.sub], senha_atual)
        THEN [resp |-> Resp(400, "Senha atual incorreta", NoToken, NoToken),
              events |-> {},
              usuarios |-> [usuarios EXCEPT
                              ![tok.sub] = set_password(@, nova_senha)]]
        ELSE same(Resp(500, "Erro interno do servidor", NoToken, NoToken))

\* Response, events and resulting table of POST /api/auth/change-password.
\* set_password changes the row in the session only; usuario.save() is what
\* would persist it, and an exception before it leaves the table as it was.
ChangePasswordOutcome(tok, senha_atual, nova_senha, confirmar_senha) ==
    LET v == jwt_required(tok, FALSE, now)
        same(resp) == [resp |-> resp, events |-> {}, usuarios |-> usuarios]
    IN  IF v # "ok" THEN same(jwt_error_response(v))
        ELSE IF senha_atual = "" \/ nova_senha = "" \/ confirmar_senha = ""
        THEN same(Resp(400, "Todos os campos sao obrigatorios",
                       NoToken, NoToken))
        ELSE IF nova_senha # confirmar_senha
        THEN same(Resp(400, "Nova senha e confirmacao nao coincidem",
                       NoToken, NoToken))
        ELSE IF SenhaLen(nova_senha) < 6
        THEN same(Resp(400, "Nova senha deve ter pelo menos 6 caracteres",
                       NoToken, NoToken))
        ELSE IF tok.sub \notin Contas
        THEN same(Resp(404, "Usuario nao encontrado", NoToken, NoToken))
        ELSE IF ~check_password(usuarios[tok.sub], senha_atual)
        THEN same(Resp(400, "Senha atual incorreta", NoToken, NoToken))
        ELSE IF "save" \notin UsuarioMethods
        THEN same(Resp(500, "Erro interno do servidor", NoToken, NoToken))
        ELSE [resp |-> Resp(200, "Senha alterada com sucesso",
                            NoToken, NoToken),
              events |-> {Event("password_changed", "")},
              usuarios |-> [usuarios EXCEPT
                              ![tok.sub] = set_password(@, nova_senha)]]

ChangePassword(tok, senha_atual, nova_senha, confirmar_senha) ==
    LET out == ChangePasswordOutcome(tok, senha_atual, nova_senha,
                                     confirmar_senha)
    IN  /\ request' = Req("change_password", tok.sub,
                          tok.sub \in Contas
                            /\ check_password(usuarios[tok.sub], senha_atual),
                          tok.jti, FALSE)
        /\ response' = out.resp
        /\ events' = out.events
        /\ usuarios' = out.usuarios
        /\ ja_revogado' = (tok.jti \in revoked_tokens)
        /\ UNCHANGED <<revoked_tokens, now, falhas>>

\* ------------------------------------------- Usuario methods called directly
IncrementLoginAttempts(c) ==
    /\ usuarios[c].tentativas_login < MaxTentativas
    /\ usuarios' = [usuarios EXCEPT ![c] = increment_login_attempts(@, now)]
    /\ request' = Req("increment_login_attempts", c, FALSE, 0,
                      is_blocked(usuarios[c], now))
    /\ response' = NoResp
    /\ events' = {}
    /\ ja_revogado' = FALSE
    /\ UNCHANGED <<revoked_tokens, now, falhas>>

ResetLoginAttempts(c) ==
    /\ usuarios' = [usuarios EXCEPT ![c] = reset_login_attempts(@, now)]
    /\ request' = Req("reset_login_attempts", c, FALSE, 0, FALSE)
    /\ response' = NoResp
    /\ events' = {}
    /\ ja_revogado' = FALSE
    /\ UNCHANGED <<revoked_tokens, now, falhas>>

\* -------------------------------------------------------------------- clock
Tick(d) ==
    /\ now + d <= MaxTime
    /\ now' = now + d
    /\ request' = Req("tick", "", FALSE, 0, FALSE)
    /\ response' = NoResp
    /\ events' = {}
    /\ ja_revogado' = FALSE
    /\ UNCHANGED <<usuarios, revoked_tokens, falhas>>

\* The routes of the auth blueprint, and the clock.
Next ==
    /\ \/ \E email \in Emails, senha \in Senhas : Login(email, senha)
       \/ \E tok \in Tokens : Refresh(tok)
       \/ \E tok \in Tokens : Logout(tok)
       \/ \E tok \in Tokens : VerifyToken(tok)
       \/ \E tok \in Tokens : GetCurrentUser(tok)
       \/ \E tok \in Tokens, atual \in SenhasAtual, nova, confirmar \in SenhasNova :
             ChangePassword(tok, atual, nova, confirmar)
       \/ \E d \in TickSteps : Tick(d)
    /\ UNCHANGED <<termo, matricula, hoje>>

Spec == Init /\ [][Next]_vars

\* The login route together with the lockout methods of Usuario called on
\* the rows directly (no route calls them), and the clock.
NextUsuario ==
    /\ \/ \E email \in Emails, senha \in Senhas : Login(email, senha)
       \/ \E c \in Contas : IncrementLoginAttempts(c)
       \/ \E c \in Contas : ResetLoginAttempts(c)
       \/ \E d \in TickSteps : Tick(d)
    /\ UNCHANGED <<termo, matricula, hoje>>

\* Both accounts active: the lockout bookkeeping does not read the ativo flag.
InitUsuario == Init /\ usuarios["bia"].ativo

SpecUsuario == InitUsuario /\ [][NextUsuario]_vars

\* Every route and every lockout method, for the accounts of ContasTudo:
\* their e-mails, their tokens and their rows.
ContasTudo == {"ana"}

NextTudo ==
    /\ \/ \E email \in {e \in Emails : find_by_email(e) \in ContasTudo},
             senha \in Senhas : Login(email, senha)
       \/ \E tok \in {t \in Tokens : t.sub \in ContasTudo} : Refresh(tok)
       \/ \E tok \in {t \in Tokens : t.sub \in ContasTudo} : Logout(tok)
       \/ \E tok \in {t \in Tokens : t.sub \in ContasTudo} : VerifyToken(tok)
       \/ \E tok \in {t \in Tokens : t.sub \in ContasTudo} : GetCurrentUser(tok)
       \/ \E tok \in {t \in Tokens : t.sub \in ContasTudo},
             atual \in SenhasAtual, nova, confirmar \in SenhasNova :
             ChangePassword(tok, atual, nova, confirmar)
       \/ \E c \in ContasTudo : IncrementLoginAttempts(c)
       \/ \E c \in ContasTudo : ResetLoginAttempts(c)
       \/ \E d \in TickSteps : Tick(d)
    /\ UNCHANGED <<termo, matricula, hoje>>

SpecTudo == Init /\ [][NextTudo]_vars

\* The auth routes with every request eventually handled: the server keeps
\* serving, so a step of the routes or the clock that stays possible is taken,
\* and clients keep logging out.
SpecJusto ==
    /\ Init /\ [][Next]_vars
    /\ WF_vars(Next)
    /\ WF_vars((\E tok \in Tokens : Logout(tok))
                 /\ UNCHANGED <<termo, matricula, hoje>>)

\* ------------------------------------------------------ TermoConsentimento
Motivos == {"", "m1", "m2"}

\* TermoConsentimento.revogar_consentimento(motivo) at time t
revogar_consentimento(tc, motivo, t) ==
    [tc EXCEPT !.consentimento_revogado = TRUE,
               !.data_revogacao = t,
               !.motivo_revogacao = motivo,
               !.atualizado_em = t]

\* TermoConsentimento.is_consentimento_valido() at time t
is_consentimento_valido(tc, t) ==
    IF tc.consentimento_revogado THEN FALSE
    ELSE IF tc.data_fim_consentimento # None /\ t > tc.data_fim_consentimento
    THEN FALSE
    ELSE TRUE

\* status_consentimento looking at the end of validity before the revocation.
status_consentimento_ExpiryFirst(tc, t) ==
    IF tc.data_fim_consentimento # None /\ t > tc.data_fim_consentimento
    THEN "expirado"
    ELSE IF tc.consentimento_revogado THEN "revogado"
    ELSE "ativo"

\* TermoConsentimento.status_consentimento at time t
status_consentimento(tc, t) ==
    IF tc.consentimento_revogado THEN "revogado"
    ELSE IF tc.data_fim_consentimento # None /\ t > tc.data_fim_consentimento
    THEN "expirado"
    ELSE "ativo"

RevogarConsentimento(motivo) ==
    /\ termo' = revogar_consentimento(termo, motivo, now)
    /\ UNCHANGED <<usuarios, revoked_tokens, now, request, response, events,
                   falhas, ja_revogado, matricula, hoje>>

InitTermo ==
    /\ InitAuth
    /\ usuarios["bia"].ativo
    /\ termo \in {NovoTermo(fim) : fim \in FimConsentimento}
    /\ matricula = NovaMatricula
    /\ hoje = 0

\* One term of consent, its revocation, and the clock.
NextTermo ==
    \/ \E motivo \in Motivos : RevogarConsentimento(motivo)
    \/ (\E d \in TickSteps : Tick(d)) /\ UNCHANGED <<termo, matricula, hoje>>

SpecTermo == InitTermo /\ [][NextTermo]_vars

\* -------------------------------------------------- MatriculaProjetoSocial
Notas == {None, 7}
MotivosDesistencia == {"m1", "m2"}

\* MatriculaProjetoSocial.matricular_beneficiaria() on day d
matricular_beneficiaria(m, d) ==
    [m EXCEPT !.status_matricula = "matriculada", !.data_matricula = d]

\* MatriculaProjetoSocial.ativar_participacao() on day d
ativar_participacao(m, d) ==
    [m EXCEPT !.status_matricula = "ativa",
              !.data_inicio = IF m.data_inicio = None THEN d ELSE @]

\* MatriculaProjetoSocial.concluir_projeto(nota_final, emitir_certificado)
concluir_projeto(m, nota_final, emitir_certificado, d) ==
    [m EXCEPT !.status_matricula = "concluida",
              !.data_fim_real = d,
              !.nota_final = IF nota_final # None THEN nota_final ELSE @,
              !.certificado_emitido = IF emitir_certificado THEN TRUE ELSE @,
              !.data_certificado = IF emitir_certificado THEN d ELSE @]

\* MatriculaProjetoSocial.registrar_desistencia(motivo) on day d
registrar_desistencia(m, motivo, d) ==
    [m EXCEPT !.status_matricula = "desistente",
              !.data_desistencia = d,
              !.motivo_desistencia = motivo]

MatriculaFrame ==
    UNCHANGED <<usuarios, revoked_tokens, now, request, response, events,
                falhas, ja_revogado, termo>>

MatricularBeneficiaria ==
    /\ matricula' = matricular_beneficiaria(matricula, hoje)
    /\ UNCHANGED hoje
    /\ MatriculaFrame

AtivarParticipacao ==
    /\ matricula' = ativar_participacao(matricula, hoje)
    /\ UNCHANGED hoje
    /\ MatriculaFrame

ConcluirProjeto(nota_final, emitir_certificado) ==
    /\ matricula' = concluir_projeto(matricula, nota_final,
                                     emitir_certificado, hoje)
    /\ UNCHANGED hoje
    /\ MatriculaFrame

RegistrarDesistencia(motivo) ==
    /\ matricula' = registrar_desistencia(matricula, motivo, hoje)
    /\ UNCHANGED hoje
    /\ MatriculaFrame

\* date.today() moves on by one day.
Amanha ==
    /\ hoje < MaxDia
    /\ hoje' = hoje + 1
    /\ UNCHANGED matricula
    /\ MatriculaFrame

InitMatricula == Init /\ usuarios["bia"].ativo

\* One enrolment, its four status methods in any order, and the calendar.
NextMatricula ==
    \/ MatricularBeneficiaria
    \/ AtivarParticipacao
    \/ \E nota \in Notas, emitir \in BOOLEAN : ConcluirProjeto(nota, emitir)
    \/ \E motivo \in MotivosDesistencia : RegistrarDesistencia(motivo)
    \/ Amanha

SpecMatricula == InitMatricula /\ [][NextMatricula]_vars

\* ===================================================================== claims
\* Shorthands for the case a login request falls in.
LoginCorreto ==
    /\ request.op = "login"
    /\ request.conta # ""
    /\ request.correct
    /\ usuarios[request.conta].ativo

LoginSenhaErrada ==
    /\ request.op = "login"
    /\ request.conta # ""
    /\ ~request.correct
    /\ usuarios[request.conta].ativo

AccountLocked(resp) ==
    /\ resp.status \in {401, 403, 423, 429}
    /\ resp.access_token = NoToken
    /\ resp.refresh_token = NoToken

\* C1: after MAX_LOGIN_ATTEMPTS (5) consecutive failed logins the account is
\* locked, and a login arriving while now < bloqueado_ate is rejected without
\* tokens even when the secret is correct.
C1_LockAfterThreshold ==
    /\ (LoginSenhaErrada /\ falhas.conta = request.conta
          /\ falhas.n >= MAX_LOGIN_ATTEMPTS)
         => is_blocked(usuarios[request.conta], now)
    /\ (request.op = "login" /\ request.blocked) => AccountLocked(response)

\* C2: a verify of a token whose jti is in revoked_tokens is rejected,
\* expired or not.
C2_RevokedRejected ==
    (request.op = "verify_token" /\ request.jti \in revoked_tokens)
        => response.status = 401

\* C3: a login with the correct secret on an existing, active, not-locked
\* account returns 200 with an access and a refresh token whose subject is
\* the account, and emits login_success.
C3_LoginSucceeds ==
    (LoginCorreto /\ ~request.blocked)
        => /\ response.status = 200
           /\ response.access_token.type = "access"
           /\ response.access_token.sub = request.conta
           /\ response.refresh_token.type = "refresh"
           /\ response.refresh_token.sub = request.conta
           /\ Event("login_success", "") \in events

\* C4: after a successful login tentativas_login is 0, bloqueado_ate is None
\* and ultimo_login is the time of the login.
C4_SuccessResets ==
    (LoginCorreto /\ ~request.blocked)
        => /\ usuarios[request.conta].tentativas_login = 0
           /\ usuarios[request.conta].bloqueado_ate = None
           /\ usuarios[request.conta].ultimo_login = now

\* C5: once now >= bloqueado_ate a login is handled by the Active rules: a
\* correct secret succeeds, a wrong secret is counted as a failed attempt.
C5_StaleLockIsActive ==
    [][\A c \in Contas :
         (/\ request'.op = "login"
          /\ request'.conta = c
          /\ usuarios[c].ativo
          /\ usuarios[c].bloqueado_ate # None
          /\ now >= usuarios[c].bloqueado_ate)
         => IF request'.correct
            THEN response'.status = 200
            ELSE usuarios'[c].tentativas_login
                     = usuarios[c].tentativas_login + 1]_vars

\* C6: no failed attempt is lost: after N consecutive failed logins on an
\* account tentativas_login has grown by N, up to the lock threshold.
C6_NoLostUpdate ==
    falhas.conta # ""
        => usuarios[falhas.conta].tentativas_login
               >= Min(falhas.n, MAX_LOGIN_ATTEMPTS)

\* C7: logout revokes only the presented access token's jti: no refresh
\* token's jti enters revoked_tokens, and an unexpired refresh token of an
\* active account still obtains a new access token from refresh.
C7_RefreshSurvivesLogout ==
    \A tok \in Tokens :
        tok.type = "refresh"
        => /\ tok.jti \notin revoked_tokens
           /\ (/\ request.op = "refresh"
               /\ request.jti = tok.jti
               /\ tok.exp > now
               /\ usuarios[tok.sub].ativo)
              => /\ response.status = 200
                 /\ response.access_token.type = "access"
                 /\ response.access_token.sub = tok.sub

\* C8: the tokens issued by a login verify and carry the subject, role and
\* kind issued, with exp = iat + the configured lifetime of the kind.
C8_ClaimsRoundTrip ==
    LoginCorreto
        => LET a == response.access_token
               r == response.refresh_token
               u == usuarios[request.conta]
           IN  /\ jwt_required(a, FALSE, now) = "ok"
               /\ jwt_required(r, TRUE, now) = "ok"
               /\ a.sub = request.conta /\ r.sub = request.conta
               /\ a.tipo_usuario = u.tipo_usuario
               /\ r.tipo_usuario = u.tipo_usuario
               /\ a.exp = a.iat + JWT_ACCESS_TOKEN_EXPIRES.minutes
               /\ r.exp = r.iat + JWT_REFRESH_TOKEN_EXPIRES.minutes

\* C9: the access token issued by a login at t0 is accepted by verify at
\* every t <= t0 + 24h and rejected as expired at every t > t0 + 24h.
C9_AccessTokenWindow ==
    LoginCorreto
        => LET a == response.access_token
               limit == now + JWT_ACCESS_TOKEN_EXPIRES_MINUTES
           IN  /\ a.iat = now
               /\ \A t \in {now, limit - 1, limit} :
                      jwt_required(a, FALSE, t) = "ok"
               /\ jwt_required(a, FALSE, limit + 1) = "token_expired"

\* The responses a login with an unknown e-mail gets in the current state.
UnknownNameResponses ==
    {LoginOutcome(email, senha).resp :
        email \in {e \in Emails : find_by_email(e) = ""}, senha \in Senhas}

TokenOf(jti) == CHOOSE tok \in Tokens : tok.jti = jti

AccessOps == {"logout", "me", "change_password", "verify_token"}
TokenOps == AccessOps \cup {"refresh"}

\* the lockout fields of account c did not change in the step
ContaIntacta(c) ==
    /\ usuarios'[c].tentativas_login = usuarios[c].tentativas_login
    /\ usuarios'[c].bloqueado_ate = usuarios[c].bloqueado_ate
    /\ usuarios'[c].ultimo_login = usuarios[c].ultimo_login

\* C11: a token of the wrong kind is rejected (refresh rejects an access
\* token; logout, me, change-password and verify-token reject a refresh
\* token), no token is issued and no state changes.
C11_KindEnforced ==
    [][(/\ request'.op \in TokenOps
        /\ (TokenOf(request'.jti).type = "refresh")
             # (request'.op = "refresh"))
       => /\ response'.status = 401
          /\ response'.access_token = NoToken
          /\ response'.refresh_token = NoToken
          /\ usuarios' = usuarios
          /\ revoked_tokens' = revoked_tokens
          /\ events' = {}]_vars

C11_Witness ==
    /\ request.op = "logout"
    /\ TokenOf(request.jti).type = "refresh"
    /\ response = jwt_error_response("token_invalid")
    /\ revoked_tokens = {}

\* C12: revoking a jti that is already revoked leaves the registry, and the
\* outcome of every later refresh and verify of any token, as they were.
C12_RevokeIdempotent ==
    [][(/\ request'.op = "logout"
        /\ response'.status = 200
        /\ request'.jti \in revoked_tokens)
       => /\ revoked_tokens' = revoked_tokens
          /\ \A tok \in Tokens :
                /\ RefreshOutcome(tok)' = RefreshOutcome(tok)
                /\ jwt_required(tok, FALSE, now)'
                     = jwt_required(tok, FALSE, now)]_vars

C12_Witness ==
    /\ request.op = "logout"
    /\ response.status = 200
    /\ ja_revogado
    /\ request.jti \in revoked_tokens

\* C13: account_locked is emitted on the failed attempt that reaches the
\* threshold (the 5th consecutive failure) and on no attempt below it.
C13_LockedEventOnFifth ==
    /\ (LoginSenhaErrada /\ falhas.conta = request.conta
          /\ falhas.n = MAX_LOGIN_ATTEMPTS)
         => Event("account_locked", "") \in events
    /\ (request.op = "login" /\ falhas.n < MAX_LOGIN_ATTEMPTS)
         => Event("account_locked", "") \notin events

\* C14: every authentication failure of a request ends in a rejection
\* together with a security event.
C14_FailureLogged ==
    (request.op \in TokenOps \cup {"login"} /\ response.status = 401)
        => events # {}

\* C15: change-password with the correct current secret and a valid new one
\* answers 200, emits password_changed, and the stored hash then verifies
\* the new secret and no longer the old one.
C15_PasswordChanged ==
    [][\A tok \in Tokens, atual \in Senhas, nova \in Senhas :
         (/\ ChangePassword(tok, atual, nova, nova)
          /\ jwt_required(tok, FALSE, now) = "ok"
          /\ check_password(usuarios[tok.sub], atual)
          /\ nova # atual)
         => /\ response'.status = 200
            /\ Event("password_changed", "") \in events'
            /\ check_password(usuarios'[tok.sub], nova)
            /\ ~check_password(usuarios'[tok.sub], atual)]_vars

\* C16: a login on an account that is locked (now < bloqueado_ate) leaves
\* tentativas_login, bloqueado_ate and ultimo_login of the account as they
\* were, whether the secret is correct or wrong.
C16_LockedLoginChangesNothing ==
    [][\A c \in Contas :
         (request'.op = "login" /\ request'.conta = c /\ request'.blocked)
         => ContaIntacta(c)]_vars

C16_Witness ==
    /\ request.op = "login"
    /\ request.blocked
    /\ ~request.correct
    /\ is_blocked(usuarios[request.conta], now)
    /\ usuarios[request.conta].tentativas_login = MAX_LOGIN_ATTEMPTS

\* C17: increment_login_attempts adds exactly 1 to tentativas_login, sets
\* bloqueado_ate = now + LOGIN_ATTEMPT_TIMEOUT when the new count has reached
\* MAX_LOGIN_ATTEMPTS, and leaves bloqueado_ate unchanged below it.
C17_IncrementLocksAtThreshold ==
    [][\A c \in Contas :
         (request'.op = "increment_login_attempts" /\ request'.conta = c)
         => /\ usuarios'[c].tentativas_login
                 = usuarios[c].tentativas_login + 1
            /\ IF usuarios'[c].tentativas_login >= MAX_LOGIN_ATTEMPTS
               THEN usuarios'[c].bloqueado_ate = now + LOGIN_ATTEMPT_TIMEOUT
               ELSE usuarios'[c].bloqueado_ate = usuarios[c].bloqueado_ate]_vars

C17_Witness ==
    /\ request.op = "increment_login_attempts"
    /\ usuarios[request.conta].tentativas_login = MAX_LOGIN_ATTEMPTS
    /\ usuarios[request.conta].bloqueado_ate = now + LOGIN_ATTEMPT_TIMEOUT

\* C18: bloqueado_ate, once set, is cleared or moved earlier only by
\* reset_login_attempts (the unlock); no login attempt, refresh, logout,
\* verify, me or change-password clears or shortens it.
C18_LockOnlyClearedByReset ==
    [][\A c \in Contas :
         (/\ usuarios[c].bloqueado_ate # None
          /\ \/ usuarios'[c].bloqueado_ate = None
             \/ usuarios'[c].bloqueado_ate < usuarios[c].bloqueado_ate)
         => (request'.op = "reset_login_attempts" /\ request'.conta = c)]_vars

C18_Witness ==
    /\ request.op = "login"
    /\ ~request.correct
    /\ request.conta \in Contas
    /\ request.blocked
    /\ usuarios[request.conta].bloqueado_ate = LOGIN_ATTEMPT_TIMEOUT
    /\ now > 0

\* C19: a login on account A leaves the row of every other account B as it
\* was, and the answer to a login on B is decided by B's row alone, whatever
\* the lock state of A.
C19_AccountsIndependent ==
    [][request'.op = "login"
       => /\ \A b \in Contas : b # request'.conta => usuarios'[b] = usuarios[b]
          /\ request'.conta \in Contas
             => response' = IF ~usuarios[request'.conta].ativo
                            THEN UsuarioInativo
                            ELSE IF ~request'.correct
                            THEN InvalidCredentials
                            ELSE handle_generic_exception]_vars

C19_Witness ==
    /\ request.op = "login"
    /\ request.conta = "bia"
    /\ ~request.blocked
    /\ is_blocked(usuarios["ana"], now)
    /\ usuarios["bia"].tentativas_login = 0
    /\ usuarios["bia"].bloqueado_ate = None

C21_OnlyLogoutTouchesRegistry ==
    [][/\ request'.op \in {"login", "refresh"}
            => revoked_tokens' = revoked_tokens
       /\ revoked_tokens' # revoked_tokens => request'.op = "logout"]_vars

C21_Witness ==
    /\ request.op = "refresh"
    /\ TokenOf(request.jti).type = "refresh"
    /\ response = handle_generic_exception
    /\ revoked_tokens # {}
    /\ request.jti \notin revoked_tokens

\* C22: every entry of the registry whose token has expired is eventually
\* dropped from the registry.
C22_RegistrySweeps ==
    \A tok \in Tokens :
        (tok.jti \in revoked_tokens /\ tok.exp <= now)
            ~> (tok.jti \notin revoked_tokens)

\* The conditions under which refresh may issue an access token for tok.
RefreshAllowed(tok) ==
    /\ tok.jti \notin revoked_tokens
    /\ tok.sub \in Contas
    /\ usuarios[tok.sub].ativo

\* C23: refresh issues an access token only if the presented jti is not
\* revoked and the subject account exists and is active; otherwise it answers
\* 401 without a token; it never issues a refresh token and never revokes the
\* presented token.
C23_RefreshConditions ==
    [][request'.op = "refresh"
       => LET tok == TokenOf(request'.jti)
          IN  /\ response'.access_token # NoToken => RefreshAllowed(tok)
              /\ ~RefreshAllowed(tok)
                    => /\ response'.status = 401
                       /\ response'.access_token = NoToken
              /\ response'.refresh_token = NoToken
              /\ revoked_tokens' = revoked_tokens]_vars

C23_Witness ==
    /\ request.op = "refresh"
    /\ TokenOf(request.jti).type = "refresh"
    /\ ~usuarios[request.conta].ativo
    /\ response = Resp(401, "Usuario nao encontrado ou inativo",
                       NoToken, NoToken)

\* C24: a login on an inactive account is rejected whether the secret is
\* correct or wrong: no token, a login_failed event with reason
\* user_inactive, and tentativas_login, bloqueado_ate and ultimo_login of
\* the account unchanged.
C24_InactiveRejected ==
    [][\A c \in Contas :
         (request'.op = "login" /\ request'.conta = c /\ ~usuarios[c].ativo)
         => /\ response'.status = 401
            /\ response'.access_token = NoToken
            /\ response'.refresh_token = NoToken
            /\ events' = {Event("login_failed", "user_inactive")}
            /\ ContaIntacta(c)]_vars

C24_Witness ==
    /\ request.op = "login"
    /\ request.conta = "bia"
    /\ request.correct
    /\ ~usuarios["bia"].ativo
    /\ response = UsuarioInativo
    /\ events = {Event("login_failed", "user_inactive")}

\* C25: a rejected change-password request (missing field, confirmation
\* differs, new secret too short, unknown account, wrong current secret)
\* leaves every stored hash unchanged and emits no password_changed event.
C25_RejectedChangeKeepsHash ==
    [][(request'.op = "change_password" /\ response'.status \in {400, 404})
       => /\ \A c \in Contas : usuarios'[c].senha_hash = usuarios[c].senha_hash
          /\ Event("password_changed", "") \notin events']_vars

C25_Witness ==
    /\ request.op = "change_password"
    /\ ~request.correct
    /\ response = Resp(400, "Senha atual incorreta", NoToken, NoToken)
    /\ check_password(usuarios[request.conta],
                      IF request.conta = "ana" THEN "s1" ELSE "s2")

\* C26: after any sequence of increment_login_attempts and
\* reset_login_attempts calls from a fresh account, bloqueado_ate is set only
\* if tentativas_login >= MAX_LOGIN_ATTEMPTS, and tentativas_login = 0
\* implies bloqueado_ate is absent.
C26_LockImpliesThreshold ==
    \A c \in Contas :
        /\ usuarios[c].bloqueado_ate # None
              => usuarios[c].tentativas_login >= MAX_LOGIN_ATTEMPTS
        /\ usuarios[c].tentativas_login = 0
              => usuarios[c].bloqueado_ate = None

C26_Witness ==
    /\ usuarios["ana"].bloqueado_ate # None
    /\ usuarios["ana"].tentativas_login = MAX_LOGIN_ATTEMPTS
    /\ request.op = "reset_login_attempts"
    /\ request.conta = "bia"
    /\ usuarios["bia"].tentativas_login = 0
    /\ usuarios["bia"].ultimo_login = now
    /\ now > 0

\* C27: when a lock has expired and the counter was not reset since, the next
\* recorded failure raises tentativas_login above the threshold and locks the
\* account again for the full LOGIN_ATTEMPT_TIMEOUT.
C27_ExpiredLockRelocks ==
    [][\A c \in Contas :
         (/\ request'.op = "increment_login_attempts"
          /\ request'.conta = c
          /\ usuarios[c].tentativas_login >= MAX_LOGIN_ATTEMPTS
          /\ usuarios[c].bloqueado_ate # None
          /\ ~is_blocked(usuarios[c], now))
         => /\ usuarios'[c].tentativas_login > MAX_LOGIN_ATTEMPTS
            /\ usuarios'[c].bloqueado_ate = now + LOGIN_ATTEMPT_TIMEOUT
            /\ is_blocked(usuarios'[c], now')]_vars

C27_Witness ==
    /\ request.op = "increment_login_attempts"
    /\ ~request.blocked
    /\ usuarios[request.conta].tentativas_login = MAX_LOGIN_ATTEMPTS + 1
    /\ usuarios[request.conta].bloqueado_ate = now + LOGIN_ATTEMPT_TIMEOUT
    /\ is_blocked(usuarios[request.conta], now)

\* C28: once revogar_consentimento has run, is_consentimento_valido() is
\* False and status_consentimento is 'revogado' in every later state; and in
\* every state is_consentimento_valido() is True exactly when
\* status_consentimento is 'ativo'.
C28_RevocationPermanent ==
    /\ [](is_consentimento_valido(termo, now)
            <=> status_consentimento(termo, now) = "ativo")
    /\ [](termo.consentimento_revogado
            => /\ ~is_consentimento_valido(termo, now)
               /\ status_consentimento(termo, now) = "revogado")
    /\ [][termo.consentimento_revogado
            => termo'.consentimento_revogado]_vars

C28_Witness ==
    /\ termo.consentimento_revogado
    /\ termo.data_fim_consentimento # None
    /\ termo.data_revogacao < termo.data_fim_consentimento
    /\ now > termo.data_fim_consentimento
    /\ status_consentimento(termo, now) = "revogado"

\* C29: after any sequence of matricular_beneficiaria, ativar_participacao,
\* concluir_projeto and registrar_desistencia, certificado_emitido implies
\* status_matricula = CONCLUIDA, and data_desistencia is set only when
\* status_matricula = DESISTENTE.
C29_CertificateImpliesConcluded ==
    /\ matricula.certificado_emitido
          => matricula.status_matricula = "concluida"
    /\ matricula.data_desistencia # None
          => matricula.status_matricula = "desistente"

====
